---- MODULE Spec2Model ----
(***************************************************************************)
(* A model of bouncing_ball.js: Ball objects shown as SVG circles, dragged *)
(* with the mouse, animated by advance_frame every 25 ms and kept inside   *)
(* the window by handle_collisions.                                        *)
(*                                                                         *)
(* The attributes cx, cy and r of a circle are strings in the program.     *)
(* add_ball writes width / 2 and height / 2 into them, so an attribute can *)
(* hold a half pixel; every other write is a whole number.  An attribute   *)
(* is modelled by twice its numeric value (Attr), and parseInt by what it  *)
(* does to such a value: it drops the half pixel.                          *)
(***************************************************************************)
EXTENDS Integers, Sequences, FiniteSets

VARIABLES
    balls,                \* the container "balls": a sequence of Ball objects
    mouse_x, mouse_y,     \* the mouse position of the last mousemove event
    button,               \* the mouse button, after the last mousedown or mouseup
    ball_selector,        \* value of the select element
    ball_size_range,      \* value of the size slider
    width, height,        \* svg.width.animVal.value, svg.height.animVal.value
    gravity_checkbox,     \* .checked of the two checkboxes
    resistance_checkbox,
    last,                 \* the handler that ran last and what it did
    seen,                 \* the mouse position advance_frame last read for a Ball
    steps, drives         \* number of handler runs / of improbability drive runs

vars == <<balls, mouse_x, mouse_y, button, ball_selector, ball_size_range, width, height,
          gravity_checkbox, resistance_checkbox, last, seen, steps, drives>>

-----------------------------------------------------------------------------
(* Bounds of the model.                                                    *)

MaxBalls == 2
MaxSteps == 5
MaxDrives == 1
MaxVel == 1000

(* Program constants.                                                      *)

DefaultRadius == 20
Gravity == 1
RadiusBase == 5
RadiusSpan == 145
VelSpan == 50
\* 0.0002 = 1 / ResistDen
ResistDen == 5000

\* Math.random() returns RandomUnit / RandomDen for a RandomUnit in 0 .. RandomDen - 1
RandomDen == 10000

-----------------------------------------------------------------------------
(* Numbers.                                                                *)

Abs(n) == IF n < 0 THEN -n ELSE n

Max(a, b) == IF a >= b THEN a ELSE b

\* the attribute value written by setAttribute(name, n) for a whole number n
Attr(n) == 2 * n

\* the attribute value written by setAttribute(name, n / 2)
AttrHalf(n) == n

\* parseInt of an attribute: the digits before the decimal point
parseInt(a) == IF a >= 0 THEN a \div 2 ELSE -((-a) \div 2)

\* floor of the square root
RECURSIVE ISqrt(_)
ISqrt(n) ==
    IF n < 2 THEN n
    ELSE LET s == 2 * ISqrt(n \div 4)
         IN  IF (s + 1) * (s + 1) <= n THEN s + 1 ELSE s

\* <<floor(a * b / q), (a * b) mod q>> for 0 <= a < q, without forming a * b
RECURSIVE MulDiv(_, _, _)
MulDiv(a, b, q) ==
    IF b = 0 THEN <<0, 0>>
    ELSE LET h == MulDiv(a, b \div 2, q)
             t == 2 * h[2] + (IF b % 2 = 1 THEN a ELSE 0)
         IN  <<2 * h[1] + (t \div q), t % q>>

\* the sign of t - q * sqrt(s), for t >= 0, q > 0, s >= 0
CmpSqrt(t, q, s) ==
    LET a == t \div q
        d == t % q
        D == s - a * a
    IN  IF D < 0 THEN 1
        ELSE IF D >= 2 * a + 1 THEN -1
        ELSE LET R == D * q - 2 * a * d
                 md == MulDiv(d, d, q)
             IN  IF md[1] < R THEN -1
                 ELSE IF md[1] = R /\ md[2] = 0 THEN 0
                 ELSE 1

\* Math.round(Math.sqrt(s) * c * 0.0002 * rad): the nearest whole number, a
\* tie going up
RoundDrag(s, c, rad) ==
    LET q  == Abs(c) * rad
        rt == ISqrt(s)
        lo == (2 * q * rt + ResistDen) \div (2 * ResistDen)
        hi == (2 * q * (rt + 1) + ResistDen) \div (2 * ResistDen)
        Edge(k) == (ResistDen \div 2) * (2 * k + 1)
    IN  IF q = 0 THEN 0
        ELSE IF c > 0
        THEN CHOOSE k \in lo .. hi :
                 /\ k = 0 \/ CmpSqrt(Edge(k - 1), q, s) <= 0
                 /\ CmpSqrt(Edge(k), q, s) > 0
        ELSE - (CHOOSE k \in Max(0, lo - 1) .. hi :
                 /\ k = 0 \/ CmpSqrt(Edge(k - 1), q, s) < 0
                 /\ CmpSqrt(Edge(k), q, s) >= 0)

\* Math.round(Math.random() * n) for Math.random() = u / RandomDen
RoundRandom(u, n) == (2 * u * n + RandomDen) \div (2 * RandomDen)

-----------------------------------------------------------------------------
(* Inputs of the model: window sizes, pointer positions, random numbers.   *)

Viewports == {<<800, 600>>, <<301, 201>>}

MousePoints(w, h) ==
    {<<w \div 2, h \div 2>>, <<(w \div 2) + 30, (h \div 2) - 20>>,
     <<10, h \div 2>>, <<w - 10, h - 10>>}

\* one tuple per Ball: the Math.random() results, in units of 1 / RandomDen,
\* for cx, cy, r, vel_x and vel_y
RandomDraws ==
    {<<0, 0, 9999, 9999, 9999>>, <<9999, 9999, 0, 0, 0>>,
     <<5000, 5000, 5000, 5000, 2500>>}

-----------------------------------------------------------------------------
(* DragState and Ball.                                                     *)

null == [null |-> TRUE]

DragState(offset_x, offset_y) ==
    [offset_x |-> offset_x, offset_y |-> offset_y,
     vel_x |-> 0, vel_y |-> 0,
     pos_x |-> 0, pos_y |-> 0]

\* update_velocity that does not keep the position of the mouse
update_velocity_pos_not_kept(ds, new_x, new_y) ==
    [ds EXCEPT !.vel_x = new_x - ds.pos_x,
               !.vel_y = new_y - ds.pos_y]

update_velocity(ds, new_x, new_y) ==
    [ds EXCEPT !.vel_x = new_x - ds.pos_x,
               !.vel_y = new_y - ds.pos_y,
               !.pos_x = new_x,
               !.pos_y = new_y]

\* new Ball(w / 2, h / 2, rad): the attributes cx and cy hold w / 2 and h / 2
Ball(w, h, rad) ==
    [vel_x |-> 0, vel_y |-> 0,
     cx |-> AttrHalf(w), cy |-> AttrHalf(h), r |-> Attr(rad),
     stroke |-> FALSE,
     drag_state |-> null]

start_drag(b) ==
    [b EXCEPT !.vel_x = 0,
              !.vel_y = 0,
              !.drag_state = DragState(mouse_x - parseInt(b.cx),
                                       mouse_y - parseInt(b.cy))]

\* reading this.drag_state.vel_x of a null drag_state is a TypeError
stop_drag_throws(b) == b.drag_state = null

\* stop_drag that forgets the velocity of the mouse
stop_drag_velocity_kept(b) == [b EXCEPT !.drag_state = null]

stop_drag(b) ==
    [b EXCEPT !.vel_x = b.drag_state.vel_x,
              !.vel_y = b.drag_state.vel_y,
              !.drag_state = null]

Held(b) == b.drag_state # null

-----------------------------------------------------------------------------
(* select_ball and add_ball.                                               *)

\* select_ball that also ends the drag of every Ball
select_ball_releasing(bs, ball_num) ==
    [ball_selector   |-> ball_num,
     ball_size_range |-> parseInt(bs[ball_num].r),
     balls           |-> [i \in 1 .. Len(bs) |->
                             [bs[i] EXCEPT !.stroke = (i = ball_num),
                                           !.drag_state = null]]]

\* the Balls, the selector and the slider after select_ball(ball_num) on bs
select_ball(bs, ball_num) ==
    [ball_selector   |-> ball_num,
     ball_size_range |-> parseInt(bs[ball_num].r),
     balls           |-> [i \in 1 .. Len(bs) |->
                             [bs[i] EXCEPT !.stroke = (i = ball_num)]]]

\* add_ball that leaves the selection on the first Ball
add_ball_first_selected(bs) ==
    select_ball(Append(bs, Ball(width, height, DefaultRadius)), 1)

add_ball(bs) ==
    LET pushed == Append(bs, Ball(width, height, DefaultRadius))
    IN  select_ball(pushed, Len(pushed))

\* the handler op has run, on Ball i (0: on none); threw: it ended in an
\* uncaught TypeError
Handled(op, i, threw) == [op |-> op, ball |-> i, threw |-> threw]

\* for each Ball of held, the mouse position that the last run of
\* advance_frame read for it; held: the Balls it left held, less those a
\* mousedown or mouseup event has reached since
Seen(held, mouse) == [i \in held |-> mouse[i]]

\* the state once the load listener of the svg has run, and the pointer has
\* moved into the window
Init ==
    /\ \E v \in Viewports : width = v[1] /\ height = v[2]
    /\ \E p \in MousePoints(width, height) : mouse_x = p[1] /\ mouse_y = p[2]
    /\ button = "up"
    /\ gravity_checkbox \in BOOLEAN
    /\ resistance_checkbox \in BOOLEAN
    /\ LET s == add_ball(<< >>)
       IN  /\ balls = s.balls
           /\ ball_selector = s.ball_selector
           /\ ball_size_range = s.ball_size_range
    /\ last = Handled("load", 0, FALSE)
    /\ seen = Seen({}, << >>)
    /\ steps = 0
    /\ drives = 0

Page == <<width, height, gravity_checkbox, resistance_checkbox>>

Mouse == <<mouse_x, mouse_y, button>>

\* one more handler runs
Step == steps < MaxSteps /\ steps' = steps + 1

AddBall ==
    /\ Step
    /\ Len(balls) < MaxBalls
    /\ LET s == add_ball(balls)
       IN  /\ balls' = s.balls
           /\ ball_selector' = s.ball_selector
           /\ ball_size_range' = s.ball_size_range
    /\ last' = Handled("add_ball", Len(balls) + 1, FALSE)
    /\ UNCHANGED <<Mouse, Page, seen, drives>>

\* the select element changes to an option that add_ball gave it
SelectBall ==
    \E n \in 1 .. Len(balls) :
        /\ Step
        /\ LET s == select_ball(balls, n)
           IN  /\ balls' = s.balls
               /\ ball_selector' = s.ball_selector
               /\ ball_size_range' = s.ball_size_range
        /\ last' = Handled("select_ball", n, FALSE)
        /\ UNCHANGED <<Mouse, Page, seen, drives>>

-----------------------------------------------------------------------------
(* Mouse events.                                                           *)

MouseMove ==
    \E p \in MousePoints(width, height) :
        /\ Step
        /\ <<mouse_x, mouse_y>> # p
        /\ mouse_x' = p[1]
        /\ mouse_y' = p[2]
        /\ last' = Handled("mousemove", 0, FALSE)
        /\ UNCHANGED <<balls, button, ball_selector, ball_size_range, Page, seen,
                       drives>>

\* the pointer is on the disk of b as it is drawn
Over(b) ==
    LET dx == Attr(mouse_x) - b.cx
        dy == Attr(mouse_y) - b.cy
    IN  dx * dx + dy * dy <= b.r * b.r

\* mousedown and mouseup reach the listener of the topmost circle under the
\* pointer; circles appended later are drawn on top
Target(i) ==
    /\ i \in 1 .. Len(balls)
    /\ Over(balls[i])
    /\ \A j \in (i + 1) .. Len(balls) : ~Over(balls[j])

MouseDown ==
    \E i \in 1 .. Len(balls) :
        /\ Step
        /\ Target(i)
        /\ balls' = [balls EXCEPT ![i] = start_drag(balls[i])]
        /\ button' = "down"
        /\ last' = Handled("mousedown", i, FALSE)
        /\ seen' = Seen(DOMAIN seen \ {i}, seen)
        /\ UNCHANGED <<mouse_x, mouse_y, ball_selector, ball_size_range, Page,
                       drives>>

MouseUp ==
    \E i \in 1 .. Len(balls) :
        /\ Step
        /\ Target(i)
        /\ button' = "up"
        /\ IF stop_drag_throws(balls[i])
           THEN /\ balls' = balls
                /\ last' = Handled("mouseup", i, TRUE)
           ELSE /\ balls' = [balls EXCEPT ![i] = stop_drag(balls[i])]
                /\ last' = Handled("mouseup", i, FALSE)
        /\ seen' = Seen(DOMAIN seen \ {i}, seen)
        /\ UNCHANGED <<mouse_x, mouse_y, ball_selector, ball_size_range, Page,
                       drives>>

-----------------------------------------------------------------------------
(* advance_frame: one Ball's share of the loop body.                       *)

\* gravity_step without the test for a dragged Ball
gravity_step_also_dragged(b) ==
    IF gravity_checkbox
    THEN [b EXCEPT !.vel_y = b.vel_y + Gravity]
    ELSE b

\* gravitational acceleration of a Ball that is not dragged
gravity_step(b) ==
    IF gravity_checkbox /\ b.drag_state = null
    THEN [b EXCEPT !.vel_y = b.vel_y + Gravity]
    ELSE b

x_accel(b) ==
    RoundDrag(b.vel_y * b.vel_y + b.vel_x * b.vel_x, b.vel_x, parseInt(b.r))

y_accel(b) ==
    RoundDrag(b.vel_y * b.vel_y + b.vel_x * b.vel_x, b.vel_y, parseInt(b.r))

\* the velocity component v after the velocity change accel
resist(v, accel) == IF accel > Abs(v) THEN 0 ELSE v - accel

Resisted(b) == resistance_checkbox /\ b.drag_state = null

\* fluid resistance on a Ball that is not dragged
resistance_step(b) ==
    IF Resisted(b)
    THEN [b EXCEPT !.vel_x = resist(b.vel_x, x_accel(b)),
                   !.vel_y = resist(b.vel_y, y_accel(b))]
    ELSE b

\* update Ball position given position and velocity
move(b) ==
    [b EXCEPT !.cx = Attr(parseInt(b.cx) + b.vel_x),
              !.cy = Attr(parseInt(b.cy) + b.vel_y)]

\* update Ball if it is being dragged
follow(b) ==
    IF b.drag_state # null
    THEN [b EXCEPT !.cx = Attr(mouse_x - b.drag_state.offset_x),
                   !.cy = Attr(mouse_y - b.drag_state.offset_y),
                   !.drag_state = update_velocity(b.drag_state, mouse_x, mouse_y)]
    ELSE b

\* loop_body that follows the mouse before it moves the Ball by its velocity
loop_body_follow_first(b) == move(follow(resistance_step(gravity_step(b))))

loop_body(b) == follow(move(resistance_step(gravity_step(b))))

-----------------------------------------------------------------------------
(* handle_collisions: the four tests on one Ball, in the order of the code. *)

release(b) == IF b.drag_state # null THEN stop_drag(b) ELSE b

hits_left(b) == parseInt(b.cx) - parseInt(b.r) <= 0

hits_right(b) == parseInt(b.cx) + parseInt(b.r) >= width

hits_top(b) == parseInt(b.cy) - parseInt(b.r) <= 0

hits_bottom(b) == parseInt(b.cy) + parseInt(b.r) >= height

\* left_wall without the move to just inside the wall
left_wall_not_moved(b) ==
    IF hits_left(b)
    THEN [release(b) EXCEPT !.vel_x = -release(b).vel_x]
    ELSE b

left_wall(b) ==
    IF hits_left(b)
    THEN [release(b) EXCEPT !.vel_x = -release(b).vel_x,
                            !.cx = Attr(1 + parseInt(b.r))]
    ELSE b

\* right_wall that puts the edge of the disk on the wall, not 1 pixel inside
right_wall_on_the_wall(b) ==
    IF hits_right(b)
    THEN [release(b) EXCEPT !.vel_x = -release(b).vel_x,
                            !.cx = Attr(width - parseInt(b.r))]
    ELSE b

right_wall(b) ==
    IF hits_right(b)
    THEN [release(b) EXCEPT !.vel_x = -release(b).vel_x,
                            !.cx = Attr(width - 1 - parseInt(b.r))]
    ELSE b

\* top_wall without the reversal of the velocity
top_wall_not_reversed(b) ==
    IF hits_top(b)
    THEN [release(b) EXCEPT !.cy = Attr(1 + parseInt(b.r))]
    ELSE b

top_wall(b) ==
    IF hits_top(b)
    THEN [release(b) EXCEPT !.vel_y = -release(b).vel_y,
                            !.cy = Attr(1 + parseInt(b.r))]
    ELSE b

\* bottom_wall where the bounce takes half of the speed
bottom_wall_damped(b) ==
    IF hits_bottom(b)
    THEN [release(b) EXCEPT !.vel_y = -(release(b).vel_y \div 2),
                            !.cy = Attr(height - 1 - parseInt(b.r))]
    ELSE b

bottom_wall(b) ==
    IF hits_bottom(b)
    THEN [release(b) EXCEPT !.vel_y = -release(b).vel_y,
                            !.cy = Attr(height - 1 - parseInt(b.r))]
    ELSE b

collide(b) == bottom_wall(top_wall(right_wall(left_wall(b))))

handle_collisions(bs) == [i \in 1 .. Len(bs) |-> collide(bs[i])]

\* the walls whose test succeeds for b in handle_collisions
walls(b) ==
    {w \in {"left"} : hits_left(b)}
    \cup {w \in {"right"} : hits_right(left_wall(b))}
    \cup {w \in {"top"} : hits_top(right_wall(left_wall(b)))}
    \cup {w \in {"bottom"} : hits_bottom(top_wall(right_wall(left_wall(b))))}

\* how often handle_collisions calls stop_drag on b
stops(b) ==
    (IF hits_left(b) /\ Held(b) THEN 1 ELSE 0)
    + (IF hits_right(left_wall(b)) /\ Held(left_wall(b)) THEN 1 ELSE 0)
    + (IF hits_top(right_wall(left_wall(b))) /\ Held(right_wall(left_wall(b)))
       THEN 1 ELSE 0)
    + (IF hits_bottom(top_wall(right_wall(left_wall(b))))
          /\ Held(top_wall(right_wall(left_wall(b))))
       THEN 1 ELSE 0)

\* the record of one Ball's frame: the Ball when the frame starts, the velocity
\* changes of fluid resistance, the Ball when handle_collisions starts, the
\* walls it is found at and the calls of stop_drag there
FrameOf(b) ==
    [start   |-> b,
     x_accel |-> IF Resisted(b) THEN x_accel(gravity_step(b)) ELSE 0,
     y_accel |-> IF Resisted(b) THEN y_accel(gravity_step(b)) ELSE 0,
     moved   |-> loop_body(b),
     walls   |-> walls(loop_body(b)),
     stops   |-> stops(loop_body(b))]

advance_frame(bs) == handle_collisions([i \in 1 .. Len(bs) |-> loop_body(bs[i])])

AdvanceFrame ==
    /\ Step
    /\ \A i \in 1 .. Len(balls) :
           Abs(balls[i].vel_x) <= MaxVel /\ Abs(balls[i].vel_y) <= MaxVel
    /\ balls' = advance_frame(balls)
    /\ last' = [op |-> "advance_frame",
                balls |-> [i \in 1 .. Len(balls) |-> FrameOf(balls[i])]]
    /\ seen' = Seen({i \in 1 .. Len(balls) : Held(advance_frame(balls)[i])},
                    [i \in 1 .. Len(balls) |-> <<mouse_x, mouse_y>>])
    /\ UNCHANGED <<Mouse, ball_selector, ball_size_range, Page, drives>>

-----------------------------------------------------------------------------
(* infinite_improbability_drive.                                           *)

\* improbable with the radius Math.round(Math.random() * 145), without the + 5
improbable_no_base(b, u) ==
    [b EXCEPT !.cx = Attr(RoundRandom(u[1], width)),
              !.cy = Attr(RoundRandom(u[2], height)),
              !.r = Attr(RoundRandom(u[3], RadiusSpan)),
              !.vel_x = RoundRandom(u[4], VelSpan),
              !.vel_y = RoundRandom(u[5], VelSpan)]

\* improbable with a velocity in -50 .. 50
improbable_either_way(b, u) ==
    [b EXCEPT !.cx = Attr(RoundRandom(u[1], width)),
              !.cy = Attr(RoundRandom(u[2], height)),
              !.r = Attr(RoundRandom(u[3], RadiusSpan) + RadiusBase),
              !.vel_x = RoundRandom(u[4], 2 * VelSpan) - VelSpan,
              !.vel_y = RoundRandom(u[5], 2 * VelSpan) - VelSpan]

\* one Ball after the loop body, with the random numbers of the tuple u
improbable(b, u) ==
    [b EXCEPT !.cx = Attr(RoundRandom(u[1], width)),
              !.cy = Attr(RoundRandom(u[2], height)),
              !.r = Attr(RoundRandom(u[3], RadiusSpan) + RadiusBase),
              !.vel_x = RoundRandom(u[4], VelSpan),
              !.vel_y = RoundRandom(u[5], VelSpan)]

\* infinite_improbability_drive without the call of select_ball at its end
infinite_improbability_drive_no_select(bs, us) ==
    [ball_selector   |-> ball_selector,
     ball_size_range |-> ball_size_range,
     balls           |-> [i \in 1 .. Len(bs) |-> improbable(bs[i], us[i])]]

infinite_improbability_drive(bs, us) ==
    select_ball([i \in 1 .. Len(bs) |-> improbable(bs[i], us[i])], ball_selector)

InfiniteImprobabilityDrive ==
    /\ Step
    /\ drives < MaxDrives
    /\ \E us \in [1 .. Len(balls) -> RandomDraws] :
           LET s == infinite_improbability_drive(balls, us)
           IN  /\ balls' = s.balls
               /\ ball_selector' = s.ball_selector
               /\ ball_size_range' = s.ball_size_range
    /\ drives' = drives + 1
    /\ last' = Handled("infinite_improbability_drive", 0, FALSE)
    /\ UNCHANGED <<Mouse, Page, seen>>

-----------------------------------------------------------------------------

Next ==
    \/ MouseMove
    \/ MouseDown
    \/ MouseUp
    \/ AddBall
    \/ SelectBall
    \/ AdvanceFrame
    \/ InfiniteImprobabilityDrive

Spec == Init /\ [][Next]_vars

-----------------------------------------------------------------------------
(* One mouse: its button goes down and up in turn, on a circle or on none. *)
(* An event on no circle runs no listener of a Ball.                       *)

OffBalls == \A i \in 1 .. Len(balls) : ~Over(balls[i])

MouseDownOffBalls ==
    /\ Step
    /\ button = "up"
    /\ OffBalls
    /\ button' = "down"
    /\ last' = Handled("mousedown", 0, FALSE)
    /\ UNCHANGED <<balls, mouse_x, mouse_y, ball_selector, ball_size_range, Page,
                   seen, drives>>

MouseUpOffBalls ==
    /\ Step
    /\ button = "down"
    /\ OffBalls
    /\ button' = "up"
    /\ last' = Handled("mouseup", 0, FALSE)
    /\ UNCHANGED <<balls, mouse_x, mouse_y, ball_selector, ball_size_range, Page,
                   seen, drives>>

PointerNext ==
    \/ MouseMove
    \/ button = "up" /\ MouseDown
    \/ MouseDownOffBalls
    \/ button = "down" /\ MouseUp
    \/ MouseUpOffBalls
    \/ AddBall
    \/ SelectBall
    \/ AdvanceFrame
    \/ InfiniteImprobabilityDrive

PointerSpec == Init /\ [][PointerNext]_vars

-----------------------------------------------------------------------------
(* What the claims are stated with.                                        *)

\* advance_frame, and with it handle_collisions, is what ran last
Framed == last.op = "advance_frame"

\* the radius of b in pixels
Radius(b) == parseInt(b.r)

\* the disk of b lies between the left and right (top and bottom) edge
InsideX(b) == b.r <= b.cx /\ b.cx <= Attr(width) - b.r

InsideY(b) == b.r <= b.cy /\ b.cy <= Attr(height) - b.r

\* the walls b violates: left x - r <= 0, right x + r >= width, top y - r <= 0,
\* bottom y + r >= height
Violated(b) ==
    {w \in {"left"} : parseInt(b.cx) - Radius(b) <= 0}
    \cup {w \in {"right"} : parseInt(b.cx) + Radius(b) >= width}
    \cup {w \in {"top"} : parseInt(b.cy) - Radius(b) <= 0}
    \cup {w \in {"bottom"} : parseInt(b.cy) + Radius(b) >= height}

Horizontal == {"left", "right"}

Vertical == {"top", "bottom"}

\* the window has room for the disk of b with one pixel to spare on each side
Roomy(b) == width >= 2 * Radius(b) + 2 /\ height >= 2 * Radius(b) + 2

\* the velocity of b is v with the components normal to the walls of ws negated
Bounced(b, v, ws) ==
    /\ b.vel_x = IF ws \cap Horizontal # {} THEN -v[1] ELSE v[1]
    /\ b.vel_y = IF ws \cap Vertical # {} THEN -v[2] ELSE v[2]

\* b as an elastic reflection at the walls ws leaves it: the velocity v with
\* the components normal to the walls of ws negated, the edge of the disk one
\* pixel inside each wall of ws
Reflected(b, v, ws) ==
    /\ Bounced(b, v, ws)
    /\ "left" \in ws => b.cx = Attr(Radius(b) + 1)
    /\ "right" \in ws => b.cx = Attr(width - Radius(b) - 1)
    /\ "top" \in ws => b.cy = Attr(Radius(b) + 1)
    /\ "bottom" \in ws => b.cy = Attr(height - Radius(b) - 1)

-----------------------------------------------------------------------------
(* C1: after handle_collisions has run at the end of a frame, the disk of  *)
(* every Ball lies inside the window, r <= x <= width - r and              *)
(* r <= y <= height - r, whatever the radius and the size of the window.   *)
C1_DiskInsideViewport ==
    Framed => \A i \in 1 .. Len(balls) : InsideX(balls[i]) /\ InsideY(balls[i])

(* C1 as amended: the same, along each axis on which the window is at      *)
(* least 2 r + 1 wide (high).                                              *)
C1_DiskInsideWideViewport ==
    Framed =>
        \A i \in 1 .. Len(balls) :
            /\ width >= 2 * Radius(balls[i]) + 1 => InsideX(balls[i])
            /\ height >= 2 * Radius(balls[i]) + 1 => InsideY(balls[i])

\* a Ball of radius 150 is found at the left wall of a window 301 wide, and a
\* Ball at a wall of a window with room to spare
C1_Witness ==
    /\ Framed
    /\ \E i \in 1 .. Len(balls) :
           /\ last.balls[i].walls # {}
           /\ Roomy(balls[i])
    /\ \E i \in 1 .. Len(balls) :
           /\ "left" \in last.balls[i].walls
           /\ Radius(balls[i]) = RadiusBase + RadiusSpan
           /\ width = 2 * Radius(balls[i]) + 1

-----------------------------------------------------------------------------
(* C2: a Ball that is not held and violates a wall when handle_collisions  *)
(* starts has exactly the velocity component normal to that wall negated,  *)
(* the other one unchanged, and its edge 1 pixel inside that wall; a Ball  *)
(* violating a horizontal and a vertical wall has both components negated. *)
C2_ElasticReflection ==
    Framed =>
        \A i \in 1 .. Len(balls) :
            LET m == last.balls[i].moved
            IN  ~Held(m) /\ Violated(m) # {} =>
                    Reflected(balls[i], <<m.vel_x, m.vel_y>>, Violated(m))

(* C2 as amended: the same for a Ball that the window has room for,        *)
(* width >= 2 r + 2 and height >= 2 r + 2.                                 *)
C2_ElasticReflectionWithRoom ==
    Framed =>
        \A i \in 1 .. Len(balls) :
            LET m == last.balls[i].moved
            IN  ~Held(m) /\ Violated(m) # {} /\ Roomy(m) =>
                    Reflected(balls[i], <<m.vel_x, m.vel_y>>, Violated(m))

\* a free Ball with velocity (-50, -50) is found at the left and the top wall
C2_Witness ==
    /\ Framed
    /\ \E i \in 1 .. Len(balls) :
           LET m == last.balls[i].moved
           IN  /\ ~Held(m)
               /\ Roomy(m)
               /\ Violated(m) = {"left", "top"}
               /\ m.vel_x = -VelSpan
               /\ m.vel_y = -VelSpan
               /\ balls[i].vel_x = VelSpan

-----------------------------------------------------------------------------
(* C3: start_drag with the pointer at (px, py) and the centre of the Ball  *)
(* at (cx, cy) sets the offset to (px - cx, py - cy) and records (px, py)  *)
(* as the last pointer position; an update of the drag velocity with the   *)
(* pointer at (px2, py2) yields the displacement from the last pointer     *)
(* position, which is (px2 - px, py2 - py) in the frame that follows       *)
(* start_drag; stop_drag sets the velocity of the Ball to the estimate and *)
(* discards the DragState.                                                 *)
C3_DragCommit ==
    [][/\ last'.op = "mousedown" =>
              LET b  == balls'[last'.ball]
                  ds == b.drag_state
              IN  /\ Attr(ds.offset_x) = Attr(mouse_x) - b.cx
                  /\ Attr(ds.offset_y) = Attr(mouse_y) - b.cy
                  /\ ds.pos_x = mouse_x
                  /\ ds.pos_y = mouse_y
       /\ last'.op = "advance_frame" =>
              \A i \in 1 .. Len(balls) :
                  Held(balls[i]) /\ Held(balls'[i]) =>
                      LET ds  == balls[i].drag_state
                          ds2 == balls'[i].drag_state
                      IN  /\ ds2.vel_x = mouse_x - ds.pos_x
                          /\ ds2.vel_y = mouse_y - ds.pos_y
                          /\ ds2.pos_x = mouse_x
                          /\ ds2.pos_y = mouse_y
       \* the pointer has not moved since start_drag: the estimate is (0, 0)
       /\ (/\ last.op = "mousedown"
           /\ last'.op = "advance_frame"
           /\ Held(balls'[last.ball])) =>
              /\ balls'[last.ball].drag_state.vel_x = 0
              /\ balls'[last.ball].drag_state.vel_y = 0
       /\ last'.op = "mouseup" /\ Held(balls[last'.ball]) =>
              /\ balls'[last'.ball].vel_x = balls[last'.ball].drag_state.vel_x
              /\ balls'[last'.ball].vel_y = balls[last'.ball].drag_state.vel_y
              /\ ~Held(balls'[last'.ball])
      ]_vars

-----------------------------------------------------------------------------
(* C4: no handler raises an exception: every run of stop_drag, from a      *)
(* mouseup event or from handle_collisions, finds a DragState on its Ball. *)
C4_NoException ==
    /\ last.op = "mouseup" => ~last.threw
    /\ Framed =>
           \A i \in 1 .. Len(balls) :
               last.balls[i].stops > 0 => Held(last.balls[i].moved)

-----------------------------------------------------------------------------
(* C5: a held Ball that violates a wall when handle_collisions starts is   *)
(* free when the frame ends, its velocity is the drag velocity estimated   *)
(* in that frame with the component normal to the violated wall negated,   *)
(* and stop_drag has run at most once for it, also at two walls.           *)
C5_ForcedRelease ==
    Framed =>
        \A i \in 1 .. Len(balls) :
            LET m == last.balls[i].moved
            IN  Held(m) /\ Violated(m) # {} =>
                    /\ ~Held(balls[i])
                    /\ Bounced(balls[i],
                               <<m.drag_state.vel_x, m.drag_state.vel_y>>,
                               Violated(m))
                    /\ last.balls[i].stops <= 1

(* C5 as amended: the same for a Ball that the window has room for,        *)
(* width >= 2 r + 2 and height >= 2 r + 2.                                 *)
C5_ForcedReleaseWithRoom ==
    Framed =>
        \A i \in 1 .. Len(balls) :
            LET m == last.balls[i].moved
            IN  Held(m) /\ Violated(m) # {} /\ Roomy(m) =>
                    /\ ~Held(balls[i])
                    /\ Bounced(balls[i],
                               <<m.drag_state.vel_x, m.drag_state.vel_y>>,
                               Violated(m))
                    /\ last.balls[i].stops <= 1

\* a Ball dragged into the bottom right corner is released with the velocity
\* of the mouse reversed in both components
C5_Witness ==
    /\ Framed
    /\ \E i \in 1 .. Len(balls) :
           LET m == last.balls[i].moved
           IN  /\ Held(m)
               /\ Roomy(m)
               /\ Violated(m) = {"right", "bottom"}
               /\ m.drag_state.vel_x > 0
               /\ m.drag_state.vel_y > 0
               /\ last.balls[i].stops = 1
               /\ balls[i].vel_x = -m.drag_state.vel_x
               /\ balls[i].vel_y = -m.drag_state.vel_y

-----------------------------------------------------------------------------
(* The velocity of a free Ball when fluid resistance is computed: gravity  *)
(* has acted on it.                                                        *)
Falling(b) ==
    <<b.vel_x, IF gravity_checkbox THEN b.vel_y + 1 ELSE b.vel_y>>

Sign(n) == IF n < 0 THEN -1 ELSE IF n > 0 THEN 1 ELSE 0

\* w is the component v slowed down by accel: never of the other sign, never
\* larger, 0 when accel is larger than v and |accel| nearer to 0 otherwise
Slowed(v, accel, w) ==
    /\ Sign(w) # -Sign(v) \/ w = 0
    /\ Abs(w) <= Abs(v)
    /\ w = IF Abs(accel) > Abs(v) THEN 0 ELSE v - Sign(v) * Abs(accel)

(* C6: one step of fluid resistance on a free Ball never changes the sign  *)
(* of a velocity component and never increases its magnitude, for positive *)
(* and negative components: when |accel| > |component| the component       *)
(* becomes 0, otherwise it moves toward zero by |accel|.                   *)
C6_ResistanceClamp ==
    Framed /\ resistance_checkbox =>
        \A i \in 1 .. Len(balls) :
            LET f == last.balls[i]
            IN  ~Held(f.start) =>
                    /\ Slowed(Falling(f.start)[1], f.x_accel, f.moved.vel_x)
                    /\ Slowed(Falling(f.start)[2], f.y_accel, f.moved.vel_y)

-----------------------------------------------------------------------------
(* C7: the velocity changes of fluid resistance on a free Ball are         *)
(* round(speed * vx * k * diameter) and round(speed * vy * k * diameter),  *)
(* with speed = sqrt(vx^2 + vy^2), k = 0.0002 and diameter = 2 * radius.   *)
C7_ResistanceOfDiameter ==
    Framed /\ resistance_checkbox =>
        \A i \in 1 .. Len(balls) :
            LET f  == last.balls[i]
                v  == Falling(f.start)
                sq == v[1] * v[1] + v[2] * v[2]
            IN  ~Held(f.start) =>
                    /\ f.x_accel = RoundDrag(sq, v[1], 2 * Radius(f.start))
                    /\ f.y_accel = RoundDrag(sq, v[2], 2 * Radius(f.start))

-----------------------------------------------------------------------------
(* C8: with fluid resistance off, a frame in which a free Ball violates no *)
(* wall increases its vel_y by exactly 1 when gravity is on and leaves it  *)
(* when gravity is off, leaves vel_x, and moves the centre of the Ball by  *)
(* the updated velocity.                                                   *)
C8_GravityStep ==
    Framed /\ ~resistance_checkbox =>
        \A i \in 1 .. Len(balls) :
            LET f == last.balls[i]
                b == balls[i]
            IN  ~Held(f.start) /\ Violated(f.moved) = {} =>
                    /\ b.vel_x = f.start.vel_x
                    /\ b.vel_y = IF gravity_checkbox THEN f.start.vel_y + 1
                                 ELSE f.start.vel_y
                    /\ b.cx = f.start.cx + Attr(b.vel_x)
                    /\ b.cy = f.start.cy + Attr(b.vel_y)

-----------------------------------------------------------------------------
(* C9: a frame applies neither gravity nor fluid resistance to the         *)
(* velocity of a held Ball, and when the Ball violates no wall in the      *)
(* frame, it ends the frame held, with its velocity unchanged and its      *)
(* centre at the pointer minus the drag offset, whatever its position and  *)
(* velocity were when the frame started.                                   *)
C9_HeldFollowsPointer ==
    Framed =>
        \A i \in 1 .. Len(balls) :
            LET s == last.balls[i].start
                m == last.balls[i].moved
                b == balls[i]
            IN  Held(s) =>
                    /\ m.vel_x = s.vel_x
                    /\ m.vel_y = s.vel_y
                    /\ Violated(m) = {} =>
                           /\ Held(b)
                           /\ b.vel_x = s.vel_x
                           /\ b.vel_y = s.vel_y
                           /\ b.cx = Attr(mouse_x - s.drag_state.offset_x)
                           /\ b.cy = Attr(mouse_y - s.drag_state.offset_y)

\* gravity and fluid resistance are on; a held Ball that the improbability
\* drive gave a velocity is taken along by the pointer, not by its velocity
C9_Witness ==
    /\ Framed
    /\ gravity_checkbox
    /\ resistance_checkbox
    /\ \E i \in 1 .. Len(balls) :
           LET s == last.balls[i].start
           IN  /\ Held(s)
               /\ Held(balls[i])
               /\ s.vel_x > 0
               /\ s.vel_y > 0
               /\ balls[i].cx # s.cx
               /\ balls[i].cx # Attr(parseInt(s.cx) + s.vel_x)

-----------------------------------------------------------------------------
(* C10: exactly one Ball is highlighted, it is the selected one, and the   *)
(* size slider shows its radius; select_ball(i) once more after            *)
(* select_ball(i) leaves the state as it is.                               *)
C10_SelectionInSync ==
    /\ ball_selector \in 1 .. Len(balls)
    /\ \A i \in 1 .. Len(balls) : balls[i].stroke <=> i = ball_selector
    /\ Cardinality({i \in 1 .. Len(balls) : balls[i].stroke}) = 1
    /\ ball_size_range = Radius(balls[ball_selector])
    /\ last.op = "select_ball" =>
           select_ball(balls, last.ball) =
               [ball_selector   |-> ball_selector,
                ball_size_range |-> ball_size_range,
                balls           |-> balls]

\* the improbability drive has changed the radius of both Balls, and the first
\* one is selected
C10_Witness ==
    /\ last.op = "infinite_improbability_drive"
    /\ Len(balls) = 2
    /\ ball_selector = 1
    /\ balls[1].stroke
    /\ ball_size_range = RadiusBase + RadiusSpan
    /\ Radius(balls[2]) = RadiusBase

-----------------------------------------------------------------------------
(* C11: add_ball appends exactly one Ball at the end of balls, not held,   *)
(* with velocity (0, 0) and radius 20, and selects it; balls never gets    *)
(* shorter and only add_ball makes it longer; add_ball leaves the          *)
(* position, velocity, radius and DragState of every Ball that was there,  *)
(* at the index it had.                                                    *)
C11_AddBallAppends ==
    [][/\ Len(balls') >= Len(balls)
       /\ last'.op # "add_ball" => Len(balls') = Len(balls)
       /\ last'.op = "add_ball" =>
              LET new == balls'[Len(balls')]
              IN  /\ Len(balls') = Len(balls) + 1
                  /\ ~Held(new)
                  /\ new.vel_x = 0
                  /\ new.vel_y = 0
                  /\ new.r = Attr(DefaultRadius)
                  /\ new.stroke
                  /\ ball_selector' = Len(balls')
                  /\ ball_size_range' = DefaultRadius
                  /\ \A i \in 1 .. Len(balls) :
                         /\ balls'[i].cx = balls[i].cx
                         /\ balls'[i].cy = balls[i].cy
                         /\ balls'[i].vel_x = balls[i].vel_x
                         /\ balls'[i].vel_y = balls[i].vel_y
                         /\ balls'[i].r = balls[i].r
                         /\ balls'[i].drag_state = balls[i].drag_state
      ]_vars

\* a second Ball has been added while the first one, moved and resized by the
\* improbability drive, is held
C11_Witness ==
    /\ last.op = "add_ball"
    /\ Len(balls) = 2
    /\ ball_selector = 2
    /\ Held(balls[1])
    /\ Radius(balls[1]) # DefaultRadius
    /\ balls[1].vel_x # 0
    /\ ~Held(balls[2])

-----------------------------------------------------------------------------
(* C12: in every reachable state, every Ball has a radius > 0.             *)
C12_RadiusPositive ==
    \A i \in 1 .. Len(balls) : balls[i].r > 0 /\ Radius(balls[i]) > 0

\* the improbability drive has drawn the smallest radius for a Ball, and a
\* frame has run since
C12_Witness ==
    /\ Framed
    /\ \E i \in 1 .. Len(balls) :
           /\ Radius(balls[i]) = RadiusBase
           /\ Radius(last.balls[i].start) = RadiusBase

-----------------------------------------------------------------------------
(* C13: infinite_improbability_drive gives every Ball, held or not, a      *)
(* radius in 5 .. 150, a vel_x and a vel_y in 0 .. 50 and a centre with    *)
(* 0 <= x <= width and 0 <= y <= height; it leaves the DragState of every  *)
(* Ball as it is, and the number of Balls.                                 *)
C13_DriveRanges ==
    [][last'.op = "infinite_improbability_drive" =>
           /\ Len(balls') = Len(balls)
           /\ \A i \in 1 .. Len(balls) :
                  LET b == balls'[i]
                  IN  /\ Radius(b) \in RadiusBase .. (RadiusBase + RadiusSpan)
                      /\ b.r = Attr(Radius(b))
                      /\ b.vel_x \in 0 .. VelSpan
                      /\ b.vel_y \in 0 .. VelSpan
                      /\ 0 <= b.cx /\ b.cx <= Attr(width)
                      /\ 0 <= b.cy /\ b.cy <= Attr(height)
                      /\ b.drag_state = balls[i].drag_state
      ]_vars

\* the drive has run on a held Ball that a frame had moved, and on a free one;
\* the extremes of the ranges are drawn
C13_Witness ==
    /\ last.op = "infinite_improbability_drive"
    /\ \E i, j \in 1 .. Len(balls) :
           /\ Held(balls[i])
           /\ balls[i].drag_state.pos_x = mouse_x
           /\ Radius(balls[i]) = RadiusBase + RadiusSpan
           /\ balls[i].vel_x = VelSpan
           /\ balls[i].cx = 0
           /\ ~Held(balls[j])
           /\ Radius(balls[j]) = RadiusBase
           /\ balls[j].vel_x = 0
           /\ balls[j].cx = Attr(width)
           /\ balls[j].cy = Attr(height)

-----------------------------------------------------------------------------
(* C14: with gravity and fluid resistance off, no step other than the      *)
(* improbability drive changes |vel_x| or |vel_y| of a Ball that is not    *)
(* held before or after it: frames, with and without a bounce, and the     *)
(* events on other Balls leave the magnitudes as they were.                *)
C14_NoEnergyChange ==
    [][(/\ ~gravity_checkbox
        /\ ~resistance_checkbox
        /\ last'.op # "infinite_improbability_drive") =>
           \A i \in 1 .. Len(balls) :
               ~Held(balls[i]) /\ ~Held(balls'[i]) =>
                   /\ Abs(balls'[i].vel_x) = Abs(balls[i].vel_x)
                   /\ Abs(balls'[i].vel_y) = Abs(balls[i].vel_y)
      ]_vars

\* gravity and fluid resistance are off; a free Ball with velocity (25, 13) has
\* moved for a frame and bounces off the bottom wall in the next one
C14_Witness ==
    /\ Framed
    /\ ~gravity_checkbox
    /\ ~resistance_checkbox
    /\ \E i \in 1 .. Len(balls) :
           LET f == last.balls[i]
           IN  /\ ~Held(f.start)
               /\ f.start.vel_x = VelSpan \div 2
               /\ f.start.vel_y > 0
               /\ f.walls = {"bottom"}
               /\ Roomy(f.start)
               /\ balls[i].vel_x = f.start.vel_x
               /\ balls[i].vel_y = -f.start.vel_y
               /\ balls[i].cx = f.start.cx + Attr(f.start.vel_x)

-----------------------------------------------------------------------------
(* A frame in four phases, each one run on all Balls before the next one   *)
(* starts: gravity and fluid resistance on the Balls that are not held,    *)
(* the move by the velocity on all Balls, the move to the pointer and the  *)
(* update of the drag velocity on the held Balls, handle_collisions.       *)
InPhases(bs) ==
    LET All == 1 .. Len(bs)
        physics    == [i \in All |->
                          IF Held(bs[i]) THEN bs[i]
                          ELSE resistance_step(gravity_step(bs[i]))]
        integrated == [i \in All |-> move(physics[i])]
        followed   == [i \in All |->
                          IF Held(integrated[i]) THEN follow(integrated[i])
                          ELSE integrated[i]]
    IN  handle_collisions(followed)

(* C15: advance_frame, which runs the loop body Ball by Ball and then      *)
(* handle_collisions, leaves the Balls as the frame in four phases does.   *)
C15_PhaseOrder ==
    Framed =>
        balls = InPhases([i \in 1 .. Len(balls) |-> last.balls[i].start])

\* gravity is on; a frame has run on a held Ball to which the drive gave a
\* velocity, and on a free Ball that fell
C15_Witness ==
    /\ Framed
    /\ gravity_checkbox
    /\ Len(balls) = 2
    /\ \E i, j \in 1 .. 2 :
           /\ Held(last.balls[i].start)
           /\ last.balls[i].start.vel_x > 0
           /\ Held(balls[i])
           /\ balls[i].cx # last.balls[i].start.cx
           /\ ~Held(last.balls[j].start)
           /\ balls[j].vel_y = last.balls[j].start.vel_y + Gravity
           /\ balls[j].cy # last.balls[j].start.cy

-----------------------------------------------------------------------------
(* C16: a frame puts a held Ball at the mouse position of the last         *)
(* mousemove event less the drag offset; for a Ball that the frame before  *)
(* left held, and that no mousedown or mouseup event has reached since,    *)
(* the drag velocity it estimates is that mouse position less the one the  *)
(* frame before read, however many mousemove events came in between; a     *)
(* mousemove event changes no Ball.                                        *)
C16_LastWriteWins ==
    [][/\ last'.op = "mousemove" => balls' = balls
       /\ last'.op = "advance_frame" =>
              \A i \in 1 .. Len(balls) :
                  LET m == last'.balls[i].moved
                  IN  /\ Held(balls[i]) =>
                             /\ m.cx = Attr(mouse_x - balls[i].drag_state.offset_x)
                             /\ m.cy = Attr(mouse_y - balls[i].drag_state.offset_y)
                             /\ Violated(m) = {} => balls'[i] = m
                      /\ i \in DOMAIN seen =>
                             /\ Held(balls[i])
                             /\ m.drag_state.vel_x = mouse_x - seen[i][1]
                             /\ m.drag_state.vel_y = mouse_y - seen[i][2]
      ]_vars

\* a Ball held through two frames, the mouse at another place in the second
\* one: the Ball has moved there and the estimate is the way of the mouse
C16_Witness ==
    /\ Framed
    /\ \E i \in DOMAIN seen :
           LET s == last.balls[i].start
           IN  /\ Held(s)
               /\ s.drag_state.pos_x # 0
               /\ s.drag_state.pos_x # mouse_x
               /\ s.drag_state.pos_y # mouse_y
               /\ seen[i] = <<mouse_x, mouse_y>>
               /\ balls[i].drag_state.vel_x = mouse_x - s.drag_state.pos_x
               /\ balls[i].cx = Attr(mouse_x - s.drag_state.offset_x)
               /\ balls[i].cx # s.cx

-----------------------------------------------------------------------------
(* C17: a held Ball stays held, with the drag offset it has, in every step *)
(* other than a mouseup event on it and a frame in which handle_collisions *)
(* finds it at a wall: frames without a wall, mousemove, add_ball,         *)
(* select_ball, the improbability drive and the events on other Balls      *)
(* leave the DragState in place.  (A mousedown event on the Ball itself    *)
(* leaves it held, with a new offset.)                                     *)
C17_HeldUntilReleased ==
    [][\A i \in 1 .. Len(balls) :
           (/\ Held(balls[i])
            /\ ~(last'.op = "mouseup" /\ last'.ball = i)
            /\ ~(last'.op = "advance_frame"
                    /\ Violated(last'.balls[i].moved) # {})) =>
               /\ Held(balls'[i])
               /\ ~(last'.op = "mousedown" /\ last'.ball = i) =>
                      /\ balls'[i].drag_state.offset_x
                             = balls[i].drag_state.offset_x
                      /\ balls'[i].drag_state.offset_y
                             = balls[i].drag_state.offset_y
      ]_vars

\* the first Ball, held through a frame, is still held when a second Ball has
\* been added and selected
C17_Witness ==
    /\ last.op = "select_ball"
    /\ last.ball = 2
    /\ Held(balls[1])
    /\ 1 \in DOMAIN seen
    /\ balls[1].drag_state.pos_x = mouse_x
    /\ ~Held(balls[2])

-----------------------------------------------------------------------------
(* C18: handle_collisions run once more right after handle_collisions      *)
(* changes no Ball, and none of its wall tests succeeds: a Ball put 1      *)
(* pixel inside a wall is at no wall.  For every Ball of every reachable   *)
(* state.                                                                  *)
C18_CollisionsIdempotent ==
    \A i \in 1 .. Len(balls) :
        LET once == collide(balls[i])
        IN  /\ collide(once) = once
            /\ walls(once) = {}

(* C18 as amended: the second run changes no Ball, and none of its wall    *)
(* tests succeeds for a Ball that the window has room for,                 *)
(* width >= 2 r + 2 and height >= 2 r + 2.                                 *)
C18_CollisionsIdempotentWithRoom ==
    \A i \in 1 .. Len(balls) :
        LET once == collide(balls[i])
        IN  /\ collide(once) = once
            /\ Roomy(once) => walls(once) = {}

\* the improbability drive has put a held Ball on the right and the bottom
\* wall of a window with room for it, and a Ball of radius 150 into a window
\* 301 wide: handle_collisions moves both
C18_Witness ==
    /\ \E i \in 1 .. Len(balls) :
           /\ Held(balls[i])
           /\ Roomy(balls[i])
           /\ walls(balls[i]) = {"right", "bottom"}
           /\ ~Held(collide(balls[i]))
           /\ collide(balls[i]).cx # balls[i].cx
    /\ \E i \in 1 .. Len(balls) :
           /\ ~Roomy(balls[i])
           /\ walls(balls[i]) # {}
           /\ walls(collide(balls[i])) # {}
           /\ collide(balls[i]) # balls[i]

-----------------------------------------------------------------------------
(* C19: with one mouse, whose mousedown and mouseup events come in turn, a *)
(* mouseup reaching the held Ball, another Ball or none, at most one Ball  *)
(* is held in any reachable state.                                         *)
C19_OneHeld ==
    Cardinality({i \in 1 .. Len(balls) : Held(balls[i])}) <= 1

====
